---- MODULE Spec2Model ----
(***************************************************************************)
(* doi-jekyll: registration of a DOI for one Jekyll blog post at DataCite. *)
(* Two entry points exist in the repository: the package                   *)
(* (src/doijekyll/doijekyll.py with src/doijekyll/metadata.py) and the     *)
(* single-file script (src/doi-jekyll.py).  Both are modelled; `impl`      *)
(* says which one is running.                                              *)
(***************************************************************************)
EXTENDS Integers, Sequences, FiniteSets, TLC

(***************************************************************************)
(* Python values.  A str is [s |-> "..."], None is [none |-> TRUE], a list *)
(* of str is [list |-> <<...>>], a dict is [keys |-> <<k1, ...>>, at |->   *)
(* [k |-> value]] where keys is the insertion order of the dict.           *)
(***************************************************************************)
Str(x) == [s |-> x]
None == [none |-> TRUE]
List(q) == [list |-> q]

IsStr(v) == DOMAIN v = {"s"}
IsNone(v) == DOMAIN v = {"none"}
IsList(v) == DOMAIN v = {"list"}
IsDict(v) == DOMAIN v = {"keys", "at"}

EmptyDict == [keys |-> <<>>, at |-> [k \in {} |-> None]]

\* A dict display {k1: v1, k2: v2, ...}, written as <<<<k1, v1>>, <<k2, v2>>, ...>>.
Dict(pairs) ==
    [keys |-> [i \in DOMAIN pairs |-> pairs[i][1]],
     at |-> [k \in {pairs[i][1] : i \in DOMAIN pairs} |->
                pairs[CHOOSE i \in DOMAIN pairs : pairs[i][1] = k][2]]]

\* `k in d`
Has(d, k) == k \in DOMAIN d.at

\* `d[k]`
Get(d, k) == d.at[k]

\* `d[k] = v` done as `del d[k]; d[k] = v`: an existing key moves to the end.
SetItem_reinsert(d, k, v) ==
    [keys |-> Append(SelectSeq(d.keys, LAMBDA x : x # k), k),
     at |-> [x \in DOMAIN d.at \cup {k} |-> IF x = k THEN v ELSE d.at[x]]]

\* `d[k] = v`: an existing key keeps its position, a new key is appended.
SetItem(d, k, v) ==
    IF Has(d, k)
    THEN [d EXCEPT !.at[k] = v]
    ELSE [keys |-> Append(d.keys, k),
          at |-> [x \in DOMAIN d.at \cup {k} |-> IF x = k THEN v ELSE d.at[x]]]

\* `d |= e` (dict.update): the keys of e in e's order.
RECURSIVE UpdateFrom(_, _, _)
UpdateFrom(d, e, i) ==
    IF i > Len(e.keys) THEN d
    ELSE UpdateFrom(SetItem(d, e.keys[i], e.at[e.keys[i]]), e, i + 1)

Update(d, e) == UpdateFrom(d, e, 1)

\* Truth value of an object in `if x:`.
Truthy(v) ==
    IF IsNone(v) THEN FALSE
    ELSE IF IsDict(v) THEN Len(v.keys) > 0
    ELSE IF IsList(v) THEN Len(v.list) > 0
    ELSE Len(v.s) > 0

(***************************************************************************)
(* The result of a call: a returned value, or a raised exception.          *)
(* SystemExit carries its argument: SystemExit(None) ends the process with *)
(* status 0, SystemExit("message") and any other exception with status 1.  *)
(***************************************************************************)
Ret(v) == [exc |-> "", val |-> v]
Raise(e) == [exc |-> e, val |-> None]

ExitStatus(exc) == IF exc = "SystemExit(None)" THEN 0 ELSE 1

(***************************************************************************)
(* str methods.                                                            *)
(***************************************************************************)
UpperCase == "ABCDEFGHIJKLMNOPQRSTUVWXYZ"
LowerCase == "abcdefghijklmnopqrstuvwxyz"

CharAt(str, i) == SubSeq(str, i, i)

LowerChar(c) ==
    IF \E i \in 1..Len(UpperCase) : CharAt(UpperCase, i) = c
    THEN CharAt(LowerCase, CHOOSE i \in 1..Len(UpperCase) : CharAt(UpperCase, i) = c)
    ELSE c

\* str.lower()
RECURSIVE lower(_)
lower(str) ==
    IF Len(str) = 0 THEN ""
    ELSE LowerChar(CharAt(str, 1)) \o lower(SubSeq(str, 2, Len(str)))

\* str.split(): split on runs of whitespace, no empty words.
RECURSIVE SplitFrom(_, _, _, _)
SplitFrom(str, i, word, acc) ==
    IF i > Len(str)
    THEN IF word = "" THEN acc ELSE Append(acc, word)
    ELSE IF CharAt(str, i) = " "
         THEN SplitFrom(str, i + 1, "", IF word = "" THEN acc ELSE Append(acc, word))
         ELSE SplitFrom(str, i + 1, word \o CharAt(str, i), acc)

split(str) == SplitFrom(str, 1, "", <<>>)

(***************************************************************************)
(* dateparser.parse on the date strings of the model: a parsed date, given *)
(* by its strftime fields %Y, %m and %d, or None when the string is not a  *)
(* date.                                                                   *)
(***************************************************************************)
ParsedDates ==
    [x \in {"2022-08-01", "2021-3-7"} |->
        IF x = "2022-08-01" THEN [Y |-> "2022", m |-> "08", d |-> "01"]
        ELSE [Y |-> "2021", m |-> "03", d |-> "07"]]

dateparser_parse(str) ==
    IF str \in DOMAIN ParsedDates THEN [date |-> ParsedDates[str]] ELSE None

(***************************************************************************)
(* mergedeep.merge(destination, source) with the default strategy REPLACE: *)
(* two mappings under the same key are merged recursively, anything else   *)
(* of the source replaces what the destination holds.                      *)
(***************************************************************************)
RECURSIVE DeepMergeFrom(_, _, _)
DeepMergeFrom(dst, src, i) ==
    IF i > Len(src.keys) THEN dst
    ELSE LET key == src.keys[i]
             val == IF Has(dst, key) /\ IsDict(Get(dst, key)) /\ IsDict(Get(src, key))
                    THEN DeepMergeFrom(Get(dst, key), Get(src, key), 1)
                    ELSE Get(src, key)
         IN  DeepMergeFrom(SetItem(dst, key, val), src, i + 1)

\* A shallow merge: dict.update in the place of mergedeep.merge.
merge_shallow(dst, src) == Update(dst, src)

merge(dst, src) == DeepMergeFrom(dst, src, 1)

(***************************************************************************)
(* metadata.py (and the same functions of doi-jekyll.py).  `impl` is       *)
(* "package" for src/doijekyll/metadata.py and "script" for                *)
(* src/doi-jekyll.py.                                                      *)
(***************************************************************************)
RightsEntry(license, url) ==
    Dict(<< <<"@schemeURI", Str("https://spdx.org/licenses/")>>,
            <<"@rightsIdentifierScheme", Str("SPDX")>>,
            <<"@rightsIdentifier", Str(license)>>,
            <<"@rightsURI", Str(url)>> >>)

\* parseLicense with the unknown code treated like a missing license.
parseLicense_unknownIsNone(data_post, impl) ==
    IF ~Has(data_post, "license") THEN Ret(None)
    ELSE LET code == lower(Get(data_post, "license").s)
         IN  IF code = "mit"
             THEN Ret(RightsEntry("MIT", "https://spdx.org/licenses/MIT.html"))
             ELSE IF code = "cc0"
             THEN Ret(RightsEntry("CC0-1.0", "https://creativecommons.org/publicdomain/zero/1.0/"))
             ELSE IF code = "cc-by4"
             THEN Ret(RightsEntry("CC-BY-4.0", "https://creativecommons.org/licenses/by/4.0/"))
             ELSE IF code = "gpl3"
             THEN Ret(RightsEntry("GPL-3.0-only", "https://opensource.org/licenses/GPL-3.0"))
             ELSE Ret(None)

\* parseLicense matching the code without .lower().
parseLicense_caseSensitive(data_post, impl) ==
    IF ~Has(data_post, "license") THEN Ret(None)
    ELSE LET code == Get(data_post, "license").s
         IN  IF code = "mit"
             THEN Ret(RightsEntry("MIT", "https://spdx.org/licenses/MIT.html"))
             ELSE IF code = "cc0"
             THEN Ret(RightsEntry("CC0-1.0", "https://creativecommons.org/publicdomain/zero/1.0/"))
             ELSE IF code = "cc-by4"
             THEN Ret(RightsEntry("CC-BY-4.0", "https://creativecommons.org/licenses/by/4.0/"))
             ELSE IF code = "gpl3"
             THEN Ret(RightsEntry("GPL-3.0-only", "https://opensource.org/licenses/GPL-3.0"))
             ELSE Raise(IF impl = "script" THEN "SystemExit(None)" ELSE "NameError")

\* The `case _:` branch calls sys.exit(); metadata.py does not import sys, so
\* there the call raises NameError.
parseLicense(data_post, impl) ==
    IF ~Has(data_post, "license") THEN Ret(None)
    ELSE LET code == lower(Get(data_post, "license").s)
         IN  IF code = "mit"
             THEN Ret(RightsEntry("MIT", "https://spdx.org/licenses/MIT.html"))
             ELSE IF code = "cc0"
             THEN Ret(RightsEntry("CC0-1.0", "https://creativecommons.org/publicdomain/zero/1.0/"))
             ELSE IF code = "cc-by4"
             THEN Ret(RightsEntry("CC-BY-4.0", "https://creativecommons.org/licenses/by/4.0/"))
             ELSE IF code = "gpl3"
             THEN Ret(RightsEntry("GPL-3.0-only", "https://opensource.org/licenses/GPL-3.0"))
             ELSE Raise(IF impl = "script" THEN "SystemExit(None)" ELSE "NameError")

getMdSchema ==
    Dict(<< <<"@xmlns:xsi", Str("http://www.w3.org/2001/XMLSchema-instance")>>,
            <<"@xmlns", Str("http://datacite.org/schema/kernel-4")>>,
            <<"@xsi:schemaLocation", Str("http://datacite.org/schema/kernel-4 http://schema.datacite.org/meta/kernel-4/metadata.xsd")>> >>)

\* The identifier section filled from the title.
getMdIdentifier_title(data_post) ==
    Dict(<< <<"identifier",
              Dict(<< <<"@identifierType", Str("DOI")>>,
                      <<"#text", Get(data_post, "title")>> >>)>> >>)

getMdIdentifier(data_post) ==
    Dict(<< <<"identifier",
              Dict(<< <<"@identifierType", Str("DOI")>>,
                      <<"#text", Get(data_post, "doi")>> >>)>> >>)

getMdCreators(data_blog, data_author) ==
    Dict(<< <<"creators",
              Dict(<< <<"creator",
                        Dict(<< <<"creatorName",
                                  Dict(<< <<"@nameType", Str("Personal")>>,
                                          <<"#text", Get(data_author, "name")>> >>)>>,
                                <<"givenName", Get(data_author, "first_name")>>,
                                <<"familyName", Get(data_author, "last_name")>>,
                                <<"nameIdentifier",
                                  Dict(<< <<"@nameIdentifierScheme", Str("ORCID")>>,
                                          <<"@schemeURI", Str("https://orcid.org")>>,
                                          <<"#text", Str("https://orcid.org/" \o Get(data_author, "orcid_id").s)>> >>)>>,
                                <<"affiliation", Get(data_blog, "affiliation")>> >>)>> >>)>> >>)

getMdTitles(data_post) ==
    Dict(<< <<"titles",
              Dict(<< <<"title",
                        Dict(<< <<"@xml:lang", Str("en")>>,
                                <<"#text", Get(data_post, "title")>> >>)>> >>)>> >>)

\* dateparser.parse returns None for a string that is no date, and
\* None.strftime raises AttributeError.
getMdPublicationYear(data_post) ==
    LET parsed == dateparser_parse(Get(data_post, "date").s)
    IN  IF IsNone(parsed) THEN Raise("AttributeError")
        ELSE Ret(Dict(<< <<"publicationYear", Str(parsed.date.Y)>> >>))

getMdPublisher(data_blog) ==
    Dict(<< <<"publisher", Get(data_blog, "publisher")>> >>)

getMdResourceType ==
    Dict(<< <<"resourceType",
              Dict(<< <<"@resourceTypeGeneral", Str("Text")>>,
                      <<"#text", Str("BlogPosting")>> >>)>> >>)

getMdLanguage == Dict(<< <<"language", Str("en")>> >>)

getMdFormats == Dict(<< <<"formats", Dict(<< <<"format", Str("HTML")>> >>)>> >>)

getMdVersion(data_post) ==
    Dict(<< <<"version", IF Has(data_post, "version") THEN Get(data_post, "version") ELSE Str("1.0")>> >>)

getMdRightsList(data_post, impl) ==
    LET rights == parseLicense(data_post, impl)
    IN  IF rights.exc # "" THEN rights
        ELSE Ret(Dict(<< <<"rightsList", Dict(<< <<"rights", rights.val>> >>)>> >>))

getMdSubjects(data_post) ==
    Dict(<< <<"subjects", Dict(<< <<"subject", List(split(Get(data_post, "tags").s))>> >>)>> >>)

getMdDescriptions(data_post) ==
    IF ~Has(data_post, "abstract") THEN EmptyDict
    ELSE Dict(<< <<"descriptions",
                   Dict(<< <<"description",
                             Dict(<< <<"@descriptionType", Str("Abstract")>>,
                                     <<"#text", Get(data_post, "abstract")>> >>)>> >>)>> >>)

getMdRelToBlog(data_blog) ==
    IF Has(data_blog, "doi")
    THEN Dict(<< <<"relatedIdentifiers",
                   Dict(<< <<"relatedIdentifier",
                             Dict(<< <<"@relatedIdentifierType", Str("DOI")>>,
                                     <<"@relationType", Str("IsPartOf")>>,
                                     <<"#text", Get(data_blog, "doi")>> >>)>> >>)>> >>)
    ELSE EmptyDict

addAdditionalMetadata(additional_metadata) ==
    IF Truthy(additional_metadata) THEN additional_metadata ELSE EmptyDict

\* `data |= a; data |= b; ...` for a sequence of dicts.
RECURSIVE UpdateAll(_, _, _)
UpdateAll(data, dicts, i) ==
    IF i > Len(dicts) THEN data ELSE UpdateAll(Update(data, dicts[i]), dicts, i + 1)

\* The `data |= getMd...()` statements of assembleMetadata, up to and
\* including getMdDescriptions.  The first call that raises ends the function.
fixedSections(data_blog, data_post, data_author, impl) ==
    LET year == getMdPublicationYear(data_post)
        rights == getMdRightsList(data_post, impl)
    IN  IF year.exc # "" THEN year
        ELSE IF rights.exc # "" THEN rights
        ELSE Ret(UpdateAll(EmptyDict,
                           << getMdSchema,
                              getMdIdentifier(data_post),
                              getMdCreators(data_blog, data_author),
                              getMdTitles(data_post),
                              year.val,
                              getMdPublisher(data_blog),
                              getMdResourceType,
                              getMdLanguage,
                              getMdFormats,
                              getMdVersion(data_post),
                              rights.val,
                              getMdSubjects(data_post),
                              getMdDescriptions(data_post) >>, 1))

\* The two override merges in the other order: the post's layer first.
mergeLayers_postFirst(data, additional_metadata, data_post) ==
    LET post == IF Has(data_post, "doi-additional-metadata")
                THEN merge(data, addAdditionalMetadata(Get(data_post, "doi-additional-metadata")))
                ELSE data
    IN  merge(post, addAdditionalMetadata(additional_metadata))

\* The two override merges at the end of metadata.assembleMetadata.
mergeLayers(data, additional_metadata, data_post) ==
    LET external == merge(data, addAdditionalMetadata(additional_metadata))
    IN  IF Has(data_post, "doi-additional-metadata")
        THEN merge(external, addAdditionalMetadata(Get(data_post, "doi-additional-metadata")))
        ELSE external

\* metadata.assembleMetadata(data_blog, data_post, data_author, additional_metadata)
assembleMetadata(data_blog, data_post, data_author, additional_metadata) ==
    LET fixed == fixedSections(data_blog, data_post, data_author, "package")
    IN  IF fixed.exc # "" THEN fixed
        ELSE Ret(Dict(<< <<"resource",
                           mergeLayers(Update(fixed.val, getMdRelToBlog(data_blog)),
                                       additional_metadata, data_post)>> >>))

\* assembleMetadata(data_blog, data_post, data_author) of doi-jekyll.py
assembleMetadataScript(data_blog, data_post, data_author) ==
    LET fixed == fixedSections(data_blog, data_post, data_author, "script")
    IN  IF fixed.exc # "" THEN fixed
        ELSE Ret(Dict(<< <<"resource", fixed.val>> >>))

(***************************************************************************)
(* base64.b64encode of the UTF-8 bytes of an ASCII str.                    *)
(***************************************************************************)
Digits == "0123456789"
B64Alphabet == "ABCDEFGHIJKLMNOPQRSTUVWXYZabcdefghijklmnopqrstuvwxyz0123456789+/"

IndexIn(str, c) == CHOOSE i \in 1..Len(str) : CharAt(str, i) = c
IsIn(str, c) == \E i \in 1..Len(str) : CharAt(str, i) = c

\* ord(c) for the characters titles are made of: letters, digits, space, dash.
ord(c) ==
    IF IsIn(UpperCase, c) THEN 64 + IndexIn(UpperCase, c)
    ELSE IF IsIn(LowerCase, c) THEN 96 + IndexIn(LowerCase, c)
    ELSE IF IsIn(Digits, c) THEN 47 + IndexIn(Digits, c)
    ELSE IF c = "-" THEN 45
    ELSE 32

\* str.encode()
encode(str) == [i \in 1..Len(str) |-> ord(CharAt(str, i))]

B64Char(n) == CharAt(B64Alphabet, n + 1)

RECURSIVE b64encode(_)
b64encode(bytes) ==
    IF Len(bytes) = 0 THEN ""
    ELSE IF Len(bytes) = 1
    THEN LET v == bytes[1] * 16
         IN  B64Char(v \div 64) \o B64Char(v % 64) \o "=="
    ELSE IF Len(bytes) = 2
    THEN LET v == (bytes[1] * 256 + bytes[2]) * 4
         IN  B64Char(v \div 4096) \o B64Char((v \div 64) % 64) \o B64Char(v % 64) \o "="
    ELSE LET v == bytes[1] * 65536 + bytes[2] * 256 + bytes[3]
         IN  B64Char(v \div 262144) \o B64Char((v \div 4096) % 64)
               \o B64Char((v \div 64) % 64) \o B64Char(v % 64)
               \o b64encode(SubSeq(bytes, 4, Len(bytes)))

\* b[0:n]
Prefix(str, n) == SubSeq(str, 1, IF Len(str) < n THEN Len(str) ELSE n)

\* genDoi keeping b64[0:5].
genDoi_short(title, base, prefix) ==
    prefix \o "/" \o base \o "-" \o Prefix(b64encode(encode(title)), 5)

genDoi(title, base, prefix) ==
    prefix \o "/" \o base \o "-" \o Prefix(b64encode(encode(title)), 6)

(***************************************************************************)
(* xmltodict.unparse: a key starting with "@" is an attribute of the       *)
(* enclosing element, "#text" is its text, any other key is a child        *)
(* element; a list gives one element per item, None an empty element.      *)
(***************************************************************************)
RECURSIVE XmlAttrs(_, _)
XmlAttrs(d, i) ==
    IF i > Len(d.keys) THEN ""
    ELSE LET k == d.keys[i]
         IN  (IF CharAt(k, 1) = "@"
              THEN " " \o SubSeq(k, 2, Len(k)) \o "=\"" \o Get(d, k).s \o "\""
              ELSE "") \o XmlAttrs(d, i + 1)

RECURSIVE XmlItems(_, _, _)
XmlItems(key, items, i) ==
    IF i > Len(items) THEN ""
    ELSE "<" \o key \o ">" \o items[i] \o "</" \o key \o ">" \o XmlItems(key, items, i + 1)

RECURSIVE XmlElement(_, _)
RECURSIVE XmlChildren(_, _)
XmlChildren(d, i) ==
    IF i > Len(d.keys) THEN ""
    ELSE LET k == d.keys[i]
         IN  (IF CharAt(k, 1) = "@" THEN ""
              ELSE IF k = "#text" THEN Get(d, k).s
              ELSE XmlElement(k, Get(d, k))) \o XmlChildren(d, i + 1)

XmlElement(key, v) ==
    IF IsDict(v)
    THEN "<" \o key \o XmlAttrs(v, 1) \o ">" \o XmlChildren(v, 1) \o "</" \o key \o ">"
    ELSE IF IsList(v) THEN XmlItems(key, v.list, 1)
    ELSE IF IsNone(v) THEN "<" \o key \o "></" \o key \o ">"
    ELSE "<" \o key \o ">" \o v.s \o "</" \o key \o ">"

xmltodict_unparse(doc) ==
    "<?xml version=\"1.0\" encoding=\"utf-8\"?>\n" \o XmlElement(doc.keys[1], Get(doc, doc.keys[1]))

(***************************************************************************)
(* genPermalink.                                                           *)
(***************************************************************************)
\* str.rstrip('/')
RECURSIVE rstripSlash(_)
rstripSlash(str) ==
    IF Len(str) > 0 /\ CharAt(str, Len(str)) = "/"
    THEN rstripSlash(SubSeq(str, 1, Len(str) - 1))
    ELSE str

\* The last position of character c in str, 0 when there is none.
LastIndex(str, c) ==
    IF IsIn(str, c)
    THEN CHOOSE i \in 1..Len(str) :
            CharAt(str, i) = c /\ \A j \in (i + 1)..Len(str) : CharAt(str, j) # c
    ELSE 0

\* PurePath(path).stem: the last path component without its last suffix.
stem(path) ==
    LET name == SubSeq(path, LastIndex(path, "/") + 1, Len(path))
        dot == LastIndex(name, ".")
    IN  IF dot > 1 /\ dot < Len(name) THEN SubSeq(name, 1, dot - 1) ELSE name

IsDigitAt(str, i) == i >= 1 /\ i <= Len(str) /\ IsIn(Digits, CharAt(str, i))
IsDashAt(str, i) == i >= 1 /\ i <= Len(str) /\ CharAt(str, i) = "-"

\* \d{1,2}- at position i: the position after the dash, 0 when it does not match.
OneOrTwoDigitsDash(str, i) ==
    IF IsDigitAt(str, i) /\ IsDigitAt(str, i + 1) /\ IsDashAt(str, i + 2) THEN i + 3
    ELSE IF IsDigitAt(str, i) /\ IsDashAt(str, i + 1) THEN i + 2
    ELSE 0

\* (\d{4}-\d{1,2}-\d{1,2}-) at position i: the position after group 1, 0 when
\* it does not match.
DatePrefixAt(str, i) ==
    IF (\A j \in i..(i + 3) : IsDigitAt(str, j)) /\ IsDashAt(str, i + 4)
    THEN LET month == OneOrTwoDigitsDash(str, i + 5)
         IN  IF month = 0 THEN 0 ELSE OneOrTwoDigitsDash(str, month)
    ELSE 0

\* re.search(regex_filename, str): group(2) of the leftmost match, None when
\* nothing matches.
regex_search(str) ==
    IF \E i \in 1..Len(str) : DatePrefixAt(str, i) # 0
    THEN LET first == CHOOSE i \in 1..Len(str) :
                         DatePrefixAt(str, i) # 0 /\ \A j \in 1..(i - 1) : DatePrefixAt(str, j) = 0
         IN  [group2 |-> SubSeq(str, DatePrefixAt(str, first), Len(str))]
    ELSE None

\* The package sets post_filename_clean to the literal "asf"; the script takes
\* group(2) of the match and raises AttributeError when there is no match.
genPermalink(data_blog, post_filename, data_post, impl) ==
    LET url_base == rstripSlash(Get(data_blog, "url").s)
        post_date_raw == dateparser_parse(Get(data_post, "date").s)
        post_filename_matched == regex_search(stem(post_filename))
    IN  IF IsNone(post_date_raw) THEN Raise("AttributeError")
        ELSE LET post_date_formatted ==
                     post_date_raw.date.Y \o "/" \o post_date_raw.date.m \o "/" \o post_date_raw.date.d
             IN  IF impl = "package"
                 THEN Ret(Str(url_base \o "/" \o post_date_formatted \o "/asf.html"))
                 ELSE IF IsNone(post_filename_matched) THEN Raise("AttributeError")
                 ELSE Ret(Str(url_base \o "/" \o post_date_formatted \o "/"
                              \o post_filename_matched.group2 \o ".html"))

(***************************************************************************)
(* State.                                                                  *)
(***************************************************************************)
VARIABLES
    impl,            \* "package": doijekyll.main(), "script": doi-jekyll.py
    args,            \* the parsed command line of the current run
    fs_post,         \* the post file: front-matter and body
    regMd,           \* DataCite: the identifiers with a metadata record
    regUrl,          \* DataCite: the identifiers with a URL mapping
    pc,              \* the statement of main() the run is at
    raw_data_blog,
    raw_data_post,
    raw_data_author,
    dj_data_xml,
    puts,            \* the PUT requests of the current run, in order
    trace,           \* the workflow steps the current run has completed
    raised,          \* the exception that ended the run, "" for none
    exitCode,        \* the exit status of the process, -1 while it runs
    fileAtStart,     \* fs_post as it was when the current run started
    prev,            \* how the previous run of the tool ended
    call,            \* a direct call of a function of metadata.py
    result           \* what that call returned or raised

vars == <<impl, args, fs_post, regMd, regUrl, pc, raw_data_blog, raw_data_post,
          raw_data_author, dj_data_xml, puts, trace, raised, exitCode,
          fileAtStart, prev, call, result>>

runVars == <<raw_data_blog, raw_data_post, raw_data_author, dj_data_xml, puts, trace>>

(***************************************************************************)
(* Input documents and command lines.                                      *)
(***************************************************************************)
Optional(key, values) == {<<>>} \cup {<< <<key, Str(v)>> >> : v \in values}

PostFiles ==
    {[metadata |-> Dict(<< <<"title", Str(title)>>, <<"date", Str(date)>>,
                           <<"author", Str("Stephen")>>, <<"tags", Str("tech science")>> >>
                        \o license \o abstract \o doi \o additional),
      content |-> "Body text"] :
        title \in {"Hello World"},
        date \in {"2022-08-01", "someday"},
        license \in Optional("license", {"MIT", "gpl3", "apache"}),
        abstract \in Optional("abstract", {"An abstract"}),
        doi \in Optional("doi", {"https://doi.org/10.1234/blog-b2xk"}),
        additional \in {<<>>,
                        << <<"doi-additional-metadata",
                             Dict(<< <<"identifier", Dict(<< <<"#text", Str("10.1234/other")>> >>)>> >>)>> >>}}

fs_config ==
    Dict(<< <<"doi_jekyll",
              Dict(<< <<"prefix", Str("10.1234")>>, <<"suffix_base", Str("blog")>>,
                      <<"provider_url", Str("https://example.org")>>,
                      <<"publisher", Str("Acme")>>, <<"affiliation", Str("Acme Labs")>> >>)>>,
            <<"url", Str("https://blog.acme.com/")>> >>)

fs_author ==
    Dict(<< <<"name", Str("Stephen King")>>, <<"first_name", Str("Stephen")>>,
            <<"last_name", Str("King")>>, <<"orcid_id", Str("0000-0000-0000-0000")>> >>)

CommandLines ==
    [user : {None, Str("datacite-user")},
     password : {None, Str("datacite-password")},
     force : BOOLEAN, dry_run : BOOLEAN, skip_url : BOOLEAN,
     blogpost : {"_posts/2022-08-01-hello-world.md"}]

NoCall == [fn |-> "none"]
NoRun == [exitCode |-> -1, raised |-> "", puts |-> <<>>, trace |-> <<>>]

(***************************************************************************)
(* The functions of doijekyll.py that main() calls.                        *)
(***************************************************************************)
\* exit() without an argument raises SystemExit(None).
parseCredentials(username, password) ==
    IF IsNone(username) THEN Raise("SystemExit(None)")
    ELSE IF IsNone(password) THEN Raise("SystemExit(None)")
    ELSE Ret(<<username, password>>)

collectBlogData(file) ==
    SetItem(Get(file, "doi_jekyll"), "url", Get(file, "url"))

\* str.strip()
RECURSIVE strip(_)
strip(str) ==
    IF Len(str) > 0 /\ CharAt(str, 1) \in {" ", "\n"} THEN strip(SubSeq(str, 2, Len(str)))
    ELSE IF Len(str) > 0 /\ CharAt(str, Len(str)) \in {" ", "\n"}
    THEN strip(SubSeq(str, 1, Len(str) - 1))
    ELSE str

\* frontmatter.loads: the header as a dict in the order of the file, and the
\* text after the header without its leading and trailing whitespace.
frontmatter_loads(file) == [metadata |-> file.metadata, content |-> strip(file.content)]

\* frontmatter.dump(post, filename, sort_keys=False): the keys in the order
\* of the dict, then the content.
frontmatter_dump(post) == [metadata |-> post.metadata, content |-> post.content]

collectPostData(file) == frontmatter_loads(file)

collectAuthorData(authorname) == fs_author

\* The run goes on whether or not the post has a doi.
checkExistingDoi_unchecked(data_post, force) == Ret(None)

\* sys.exit("DOI already exists ...") raises SystemExit with a message.
checkExistingDoi(data_post, force) ==
    IF Has(data_post.metadata, "doi") /\ ~force
    THEN Raise("SystemExit(message)")
    ELSE Ret(None)

\* main() of the package calls metadata.assembleMetadata without its fourth
\* parameter additional_metadata, which has no default: TypeError.
callAssembleMetadata(data_blog, data_post, data_author) ==
    IF impl = "package" THEN Raise("TypeError")
    ELSE assembleMetadataScript(data_blog, data_post, data_author)

MetadataRequest(data_blog, xml, doi, ok) ==
    [kind |-> "metadata",
     url |-> Get(data_blog, "provider_url").s \o "/metadata/" \o doi,
     body |-> xml, ok |-> ok]

UrlRequest(data_blog, url, doi, ok) ==
    [kind |-> "url",
     url |-> Get(data_blog, "provider_url").s \o "/doi/" \o doi,
     body |-> "#Content-Type:text/plain;charset=UTF-8\ndoi= " \o doi \o "\nurl= " \o url,
     ok |-> ok]

\* The response to the metadata PUT is not looked at.
checkMetadataResult_ignored(ok) == Ret(None)

\* `if not debug.ok:` after the metadata PUT: no name `debug` is bound in
\* either file, so evaluating the condition raises NameError whatever the
\* response was.
checkMetadataResult(ok) == Raise("NameError")

\* `if not dj_regUrl_result.ok: ... sys.exit()`
checkUrlResult(ok) == IF ~ok THEN Raise("SystemExit(None)") ELSE Ret(None)

\* The doi written as the first key of a new header.
updateBlogpostMarkdown_doiFirst(data_post, doi) ==
    [data_post EXCEPT !.metadata =
        Update(Dict(<< <<"doi", Str("https://doi.org/" \o doi)>> >>),
               [keys |-> SelectSeq(@.keys, LAMBDA k : k # "doi"), at |-> @.at])]

\* The post with its doi set; main() hands it to frontmatter.dump.
updateBlogpostMarkdown(data_post, doi) ==
    [data_post EXCEPT !.metadata = SetItem(@, "doi", Str("https://doi.org/" \o doi))]

(***************************************************************************)
(* main(): one action per step of the workflow.                            *)
(***************************************************************************)
Init ==
    /\ impl \in {"package", "script"}
    /\ args \in CommandLines
    /\ fs_post \in PostFiles
    /\ regMd = {}
    /\ regUrl = {}
    /\ pc = "parseCredentials"
    /\ raw_data_blog = EmptyDict
    /\ raw_data_post = [metadata |-> EmptyDict, content |-> ""]
    /\ raw_data_author = EmptyDict
    /\ dj_data_xml = ""
    /\ puts = <<>>
    /\ trace = <<>>
    /\ raised = ""
    /\ exitCode = -1
    /\ fileAtStart = fs_post
    /\ prev = NoRun
    /\ call = NoCall
    /\ result = Ret(None)

\* An uncaught exception (SystemExit included) ends the process.
Abort(exc) ==
    /\ pc' = "exit"
    /\ raised' = exc
    /\ exitCode' = ExitStatus(exc)

Continue(next) ==
    /\ pc' = next
    /\ UNCHANGED <<raised, exitCode>>

\* doijekyll.py 144-148
ParseCredentials ==
    /\ pc = "parseCredentials"
    /\ LET credentials == parseCredentials(args.user, args.password)
       IN  IF credentials.exc # "" THEN Abort(credentials.exc) ELSE Continue("collect")
    /\ UNCHANGED <<impl, args, fs_post, regMd, regUrl, runVars, fileAtStart, prev, call, result>>

\* doijekyll.py 150-155
CollectData ==
    /\ pc = "collect"
    /\ raw_data_blog' = collectBlogData(fs_config)
    /\ raw_data_post' = collectPostData(fs_post)
    /\ raw_data_author' = collectAuthorData(Get(fs_post.metadata, "author"))
    /\ trace' = Append(trace, "read")
    /\ Continue("genDoi")
    /\ UNCHANGED <<impl, args, fs_post, regMd, regUrl, dj_data_xml, puts, fileAtStart, prev, call, result>>

\* doijekyll.py 157-160
GenerateDoi ==
    /\ pc = "genDoi"
    /\ LET existing == checkExistingDoi(raw_data_post, args.force)
       IN  IF existing.exc # ""
           THEN Abort(existing.exc) /\ UNCHANGED <<raw_data_post, trace>>
           ELSE /\ raw_data_post' =
                      [raw_data_post EXCEPT !.metadata =
                          SetItem(@, "doi", Str(genDoi(Get(@, "title").s,
                                                       Get(raw_data_blog, "suffix_base").s,
                                                       Get(raw_data_blog, "prefix").s)))]
                /\ trace' = Append(trace, "genDoi")
                /\ Continue("assemble")
    /\ UNCHANGED <<impl, args, fs_post, regMd, regUrl, raw_data_blog, raw_data_author,
                   dj_data_xml, puts, fileAtStart, prev, call, result>>

\* doijekyll.py 162-166
AssembleMetadata ==
    /\ pc = "assemble"
    /\ LET dj_data_json == callAssembleMetadata(raw_data_blog, raw_data_post.metadata, raw_data_author)
       IN  IF dj_data_json.exc # ""
           THEN Abort(dj_data_json.exc) /\ UNCHANGED <<dj_data_xml, trace>>
           ELSE /\ dj_data_xml' = xmltodict_unparse(dj_data_json.val)
                /\ trace' = Append(trace, "assemble")
                /\ Continue("registerMetadata")
    /\ UNCHANGED <<impl, args, fs_post, regMd, regUrl, raw_data_blog, raw_data_post,
                   raw_data_author, puts, fileAtStart, prev, call, result>>

\* doijekyll.py 168-178
RegisterMetadata ==
    /\ pc = "registerMetadata"
    /\ IF args.dry_run
       THEN Continue("registerUrl") /\ UNCHANGED <<regMd, puts, trace>>
       ELSE \E ok \in BOOLEAN :
               LET doi == Get(raw_data_post.metadata, "doi").s
                   checked == checkMetadataResult(ok)
               IN  /\ puts' = Append(puts, MetadataRequest(raw_data_blog, dj_data_xml, doi, ok))
                   /\ regMd' = IF ok THEN regMd \cup {doi} ELSE regMd
                   /\ trace' = Append(trace, "putMetadata")
                   /\ IF checked.exc # "" THEN Abort(checked.exc) ELSE Continue("registerUrl")
    /\ UNCHANGED <<impl, args, fs_post, regUrl, raw_data_blog, raw_data_post,
                   raw_data_author, dj_data_xml, fileAtStart, prev, call, result>>

\* doijekyll.py 180-193
RegisterUrl ==
    /\ pc = "registerUrl"
    /\ IF args.skip_url \/ args.dry_run
       THEN Continue("update") /\ UNCHANGED <<regUrl, puts, trace>>
       ELSE LET doi == Get(raw_data_post.metadata, "doi").s
                url == genPermalink(raw_data_blog, args.blogpost, raw_data_post.metadata, impl)
            IN  IF url.exc # ""
                THEN Abort(url.exc) /\ UNCHANGED <<regUrl, puts, trace>>
                ELSE \E ok \in BOOLEAN :
                        LET checked == checkUrlResult(ok)
                        IN  /\ puts' = Append(puts, UrlRequest(raw_data_blog, url.val.s, doi, ok))
                            /\ regUrl' = IF ok
                                         THEN {m \in regUrl : m.doi # doi}
                                                \cup {[doi |-> doi, url |-> url.val.s]}
                                         ELSE regUrl
                            /\ trace' = Append(trace, "putUrl")
                            /\ IF checked.exc # "" THEN Abort(checked.exc) ELSE Continue("update")
    /\ UNCHANGED <<impl, args, fs_post, regMd, raw_data_blog, raw_data_post,
                   raw_data_author, dj_data_xml, fileAtStart, prev, call, result>>

\* doijekyll.py 195-200 and the sys.exit(main()) that follows
UpdateBlogpost ==
    /\ pc = "update"
    /\ IF args.dry_run
       THEN UNCHANGED <<fs_post, raw_data_post, trace>>
       ELSE /\ raw_data_post' = updateBlogpostMarkdown(raw_data_post, Get(raw_data_post.metadata, "doi").s)
            /\ fs_post' = frontmatter_dump(raw_data_post')
            /\ trace' = Append(trace, "rewrite")
    /\ pc' = "exit"
    /\ raised' = ""
    /\ exitCode' = 0
    /\ UNCHANGED <<impl, args, regMd, regUrl, raw_data_blog, raw_data_author,
                   dj_data_xml, puts, fileAtStart, prev, call, result>>

\* The user runs the tool again on the same post, with any command line.
StartRun ==
    /\ pc = "exit"
    /\ args' \in CommandLines
    /\ prev' = [exitCode |-> exitCode, raised |-> raised, puts |-> puts, trace |-> trace]
    /\ fileAtStart' = fs_post
    /\ pc' = "parseCredentials"
    /\ raised' = ""
    /\ exitCode' = -1
    /\ raw_data_blog' = EmptyDict
    /\ raw_data_post' = [metadata |-> EmptyDict, content |-> ""]
    /\ raw_data_author' = EmptyDict
    /\ dj_data_xml' = ""
    /\ puts' = <<>>
    /\ trace' = <<>>
    /\ UNCHANGED <<impl, fs_post, regMd, regUrl, call, result>>

Next ==
    \/ ParseCredentials
    \/ CollectData
    \/ GenerateDoi
    \/ AssembleMetadata
    \/ RegisterMetadata
    \/ RegisterUrl
    \/ UpdateBlogpost
    \/ StartRun

Spec == Init /\ [][Next]_vars

(***************************************************************************)
(* Direct calls of metadata.parseLicense and metadata.assembleMetadata,    *)
(* as a test or another caller makes them.                                 *)
(***************************************************************************)
MaxLicenseLen == 3

LicenseAlphabet == {"m", "i", "t", "M", "I", "T"}

RECURSIVE StringsOfLen(_)
StringsOfLen(n) ==
    IF n = 0 THEN {""}
    ELSE {str \o c : str \in StringsOfLen(n - 1), c \in LicenseAlphabet}

LicenseStrings ==
    UNION {StringsOfLen(n) : n \in 0..MaxLicenseLen}
      \cup {"cc0", "CC0", "Cc0", "cc-by4", "CC-BY4", "cc-By4", "gpl3", "GPL3", "gPl3",
            "apache", "mit ", "gpl-3", "cc-by", "cc0-1.0"}

Overrides ==
    { EmptyDict,
      Dict(<< <<"version", Str("2.0")>> >>),
      Dict(<< <<"version", Str("3.0")>> >>),
      Dict(<< <<"creators", Dict(<< <<"creator", Dict(<< <<"givenName", Str("S.")>> >>)>> >>)>> >>),
      Dict(<< <<"creators", Dict(<< <<"creator", Dict(<< <<"givenName", Str("Steve")>>,
                                                         <<"familyName", Str("K.")>> >>)>> >>)>> >>),
      Dict(<< <<"identifier", Str("10.1234/other")>> >>),
      Dict(<< <<"contributors", Dict(<< <<"contributor", Str("Jane Doe")>> >>)>>,
              <<"titles", Dict(<< <<"title", Dict(<< <<"#text", Str("Another title")>> >>)>> >>)>> >>) }

CallPosts ==
    {Dict(<< <<"title", Str("Hello World")>>, <<"date", Str(date)>>,
             <<"author", Str("Stephen")>>, <<"tags", Str("tech science")>> >>
          \o license \o abstract \o version
          \o << <<"doi", Str("10.1234/blog-SGVsbG")>> >> \o additional) :
        date \in {"2022-08-01", "2021-3-7", "someday"},
        license \in Optional("license", {"mit", "CC-BY4", "apache"}),
        abstract \in Optional("abstract", {"An abstract"}),
        version \in Optional("version", {"1.5"}),
        additional \in {<<>>} \cup {<< <<"doi-additional-metadata", o>> >> : o \in Overrides}}

CallBlogs ==
    {Dict(<< <<"prefix", Str("10.1234")>>, <<"suffix_base", Str("blog")>>,
             <<"provider_url", Str("https://example.org")>>,
             <<"publisher", Str("Acme")>>, <<"affiliation", Str("Acme Labs")>> >>
          \o doi \o << <<"url", Str("https://blog.acme.com/")>> >>) :
        doi \in Optional("doi", {"10.1234/blog"})}

MaxTitleLen == 4

TitleAlphabet == {"H", "e", " ", "9", "-"}

RECURSIVE TitlesOfLen(_)
TitlesOfLen(n) ==
    IF n = 0 THEN {""}
    ELSE {str \o c : str \in TitlesOfLen(n - 1), c \in TitleAlphabet}

Titles == UNION {TitlesOfLen(n) : n \in 0..MaxTitleLen} \cup {"Hello World"}

BaseUrls == {"https://blog.acme.com"}
PostDirs == {"", "_posts/"}
DatePrefixes == {"2022-08-01-", "2021-3-7-", "2022-8-01-"}
Slugs == {"hello-world", "a.b", "2020-1-1-x", "x"}

PostFilenames ==
    {dir \o datePrefix \o slug \o ".md" :
        dir \in PostDirs, datePrefix \in DatePrefixes, slug \in Slugs}
    \cup {"hello.md", "_posts/draft-2022-08-01-x.md", "2022-08-x.md"}

\* Post files with no doi, a doi between other keys, or a doi as last key.
CallPostFiles ==
    {[metadata |-> Dict(<< <<"title", Str("Hello World")>>, <<"date", Str("2022-08-01")>> >>
                        \o middle
                        \o << <<"author", Str("Stephen")>>, <<"tags", Str("tech science")>> >>
                        \o abstract \o last),
      content |-> content] :
        middle \in Optional("doi", {"https://doi.org/10.1234/blog-b2xk"}),
        abstract \in Optional("abstract", {"An abstract"}),
        last \in Optional("license", {"MIT"}) \cup Optional("doi", {"https://doi.org/10.1234/blog-b2xk"}),
        content \in {"Body text", "\nBody text\n\nMore text\n", ""}}

\* updateBlogpostMarkdown as main() calls it: on the post read from the file
\* (line 152) with the generated identifier under doi (line 159).
Calls ==
    {[fn |-> "updateBlogpostMarkdown", file |-> file, doi |-> doi,
      data_post |-> [frontmatter_loads(file) EXCEPT !.metadata = SetItem(@, "doi", Str(doi))]] :
        file \in CallPostFiles, doi \in {genDoi("Hello World", "blog", "10.1234")}}
    \cup
    {[fn |-> "genPermalink",
      data_blog |-> Dict(<< <<"url", Str(url)>> >>),
      post_filename |-> filename,
      data_post |-> Dict(<< <<"title", Str("Hello World")>>, <<"date", Str(date)>> >>),
      impl |-> i] :
        url \in BaseUrls \cup {b \o "/" : b \in BaseUrls},
        filename \in PostFilenames,
        date \in {"2022-08-01", "2021-3-7", "someday"},
        i \in {"package", "script"}}
    \cup
    {[fn |-> "genDoi", title |-> title, base |-> base, prefix |-> "10.1234"] :
        title \in Titles, base \in {"blog", "b"}}
    \cup
    {[fn |-> "parseLicense", data_post |-> Dict(<< <<"license", Str(license)>> >>), impl |-> i] :
        license \in LicenseStrings, i \in {"package", "script"}}
    \cup
    {[fn |-> "parseLicense", data_post |-> EmptyDict, impl |-> i] : i \in {"package", "script"}}
    \cup
    {[fn |-> "assembleMetadata", data_blog |-> b, data_post |-> p, data_author |-> fs_author,
      additional_metadata |-> a] :
        b \in CallBlogs, p \in CallPosts, a \in {None} \cup Overrides}

Pending == [exc |-> "pending", val |-> None]

UnitInit ==
    /\ call \in Calls
    /\ result = Pending
    /\ impl = "package"
    /\ args = [user |-> None, password |-> None, force |-> FALSE, dry_run |-> FALSE,
               skip_url |-> FALSE, blogpost |-> ""]
    /\ fs_post = [metadata |-> EmptyDict, content |-> ""]
    /\ regMd = {}
    /\ regUrl = {}
    /\ pc = "idle"
    /\ raw_data_blog = EmptyDict
    /\ raw_data_post = [metadata |-> EmptyDict, content |-> ""]
    /\ raw_data_author = EmptyDict
    /\ dj_data_xml = ""
    /\ puts = <<>>
    /\ trace = <<>>
    /\ raised = ""
    /\ exitCode = -1
    /\ fileAtStart = fs_post
    /\ prev = NoRun

mainVars == <<impl, args, fs_post, regMd, regUrl, pc, raw_data_blog, raw_data_post,
              raw_data_author, dj_data_xml, puts, trace, raised, exitCode, fileAtStart, prev>>

CallParseLicense ==
    /\ call.fn = "parseLicense"
    /\ result = Pending
    /\ result' = parseLicense(call.data_post, call.impl)
    /\ UNCHANGED <<call, mainVars>>

CallAssembleMetadata ==
    /\ call.fn = "assembleMetadata"
    /\ result = Pending
    /\ result' = assembleMetadata(call.data_blog, call.data_post, call.data_author,
                                  call.additional_metadata)
    /\ UNCHANGED <<call, mainVars>>

CallGenDoi ==
    /\ call.fn = "genDoi"
    /\ result = Pending
    /\ result' = Ret(Str(genDoi(call.title, call.base, call.prefix)))
    /\ UNCHANGED <<call, mainVars>>

CallGenPermalink ==
    /\ call.fn = "genPermalink"
    /\ result = Pending
    /\ result' = genPermalink(call.data_blog, call.post_filename, call.data_post, call.impl)
    /\ UNCHANGED <<call, mainVars>>

CallUpdateBlogpostMarkdown ==
    /\ call.fn = "updateBlogpostMarkdown"
    /\ result = Pending
    /\ result' = Ret(frontmatter_dump(updateBlogpostMarkdown(call.data_post, call.doi)))
    /\ UNCHANGED <<call, mainVars>>

UnitNext ==
    \/ CallParseLicense
    \/ CallAssembleMetadata
    \/ CallGenDoi
    \/ CallGenPermalink
    \/ CallUpdateBlogpostMarkdown

SpecUnit == UnitInit /\ [][UnitNext]_vars

(***************************************************************************)
(* Properties of the workflow (specification Spec).                        *)
(***************************************************************************)
KnownLicenseCodes == {"mit", "cc0", "cc-by4", "gpl3"}

\* Two strings that differ at most in the case of their letters.
SameLetter(a, b) ==
    \/ a = b
    \/ \E i \in 1..Len(UpperCase) :
          {a, b} = {CharAt(UpperCase, i), CharAt(LowerCase, i)}

SameIgnoringCase(a, b) ==
    /\ Len(a) = Len(b)
    /\ \A i \in 1..Len(a) : SameLetter(CharAt(a, i), CharAt(b, i))

IsKnownLicense(str) == \E k \in KnownLicenseCodes : SameIgnoringCase(str, k)

Finished == pc = "exit"
MissingCredentials == IsNone(args.user) \/ IsNone(args.password)
ExistingDoi == Has(fileAtStart.metadata, "doi")
UnknownLicense ==
    Has(fileAtStart.metadata, "license") /\ ~IsKnownLicense(Get(fileAtStart.metadata, "license").s)
UnparseableDate == Get(fileAtStart.metadata, "date").s \notin {"2022-08-01", "2021-3-7"}
PutFailed == \E i \in DOMAIN puts : ~puts[i].ok
PutsOf(kind) == {i \in DOMAIN puts : puts[i].kind = kind}

\* The identifier main() generates for the post of the model.
ExpectedDoi == "10.1234/blog-SGVsbG"

\* Credentials present, no doi key, a known license, a parseable date, no
\* dry-run, no skip-url.
HappyRun ==
    /\ ~MissingCredentials
    /\ ~ExistingDoi
    /\ Has(fileAtStart.metadata, "license") /\ ~UnknownLicense
    /\ ~UnparseableDate
    /\ ~args.dry_run /\ ~args.skip_url

FullWorkflow == <<"read", "genDoi", "assemble", "putMetadata", "putUrl", "rewrite">>

PostHoldsDoi ==
    /\ Has(fs_post.metadata, "doi")
    /\ Get(fs_post.metadata, "doi") = Str("https://doi.org/" \o ExpectedDoi)

\* C1: a run with credentials, a post without doi, a known license, a
\* parseable date, no dry-run and no skip-url, whose PUTs are all answered ok,
\* ends having gone through read, identifier, assembly, metadata PUT, URL PUT
\* and rewrite in this order, with the doi of the generated identifier in the
\* post file.
C1_HappyPathRegistersAndRewrites ==
    (Finished /\ HappyRun /\ ~PutFailed)
        => (trace = FullWorkflow /\ PostHoldsDoi)

\* C2: while a run is on a post that had a doi key when the run started, and
\* force is not set, no PUT has been issued, the post file is as it was, the
\* run never gets to assembly or registration, and it ends by an abort.
C2_ExistingDoiAbortsBeforeNetwork ==
    (pc # "idle" /\ ExistingDoi /\ ~args.force)
        => /\ puts = <<>>
           /\ fs_post = fileAtStart
           /\ pc \notin {"assemble", "registerMetadata", "registerUrl", "update"}
           /\ (Finished => raised # "")

\* A re-run, after a run that registered metadata, was stopped by the doi
\* of the post.
C2_Witness ==
    /\ Finished /\ raised = "SystemExit(message)"
    /\ ExistingDoi /\ ~args.force
    /\ prev # NoRun /\ regMd # {}

\* C3: each PUT is issued at most once per run; after a non-ok metadata PUT
\* the run has ended by an abort with no URL PUT and the post file untouched;
\* after a non-ok URL PUT the run has ended by an abort with the post file
\* untouched.
C3_NonOkResponseAbortsWithoutRetry ==
    /\ Cardinality(PutsOf("metadata")) <= 1
    /\ Cardinality(PutsOf("url")) <= 1
    /\ (\E i \in PutsOf("metadata") : ~puts[i].ok)
          => (Finished /\ raised # "" /\ PutsOf("url") = {} /\ fs_post = fileAtStart)
    /\ (\E i \in PutsOf("url") : ~puts[i].ok)
          => (Finished /\ raised # "" /\ fs_post = fileAtStart)

\* A run whose metadata PUT was answered non-ok has ended.
C3_Witness ==
    /\ Finished /\ raised # ""
    /\ \E i \in PutsOf("metadata") : ~puts[i].ok
    /\ PutsOf("url") = {}

\* The previous run registered the metadata record and then failed, leaving
\* the post without a doi key.
PreviousRunFailedAfterMetadata ==
    /\ prev.raised # ""
    /\ \E i \in DOMAIN prev.puts : prev.puts[i].kind = "metadata" /\ prev.puts[i].ok
    /\ ~ExistingDoi

\* C4: a re-run after a run that registered the metadata and then failed is
\* not stopped by the existing-identifier check, and when its PUTs are all
\* answered ok it ends as an uninterrupted successful run does: metadata
\* record and URL mapping registered for the identifier, doi in the post.
C4_RerunConverges ==
    (Finished /\ PreviousRunFailedAfterMetadata /\ HappyRun /\ ~PutFailed)
        => /\ ExpectedDoi \in regMd
           /\ \E m \in regUrl : m.doi = ExpectedDoi
           /\ PostHoldsDoi

\* C5: the exit status is 0 after a successful run and non-zero after
\* missing credentials, an unknown license, an existing doi without force,
\* or a non-ok answer to a PUT.
C5_ExitCodeTellsFailure ==
    Finished =>
        /\ (MissingCredentials \/ UnknownLicense \/ (ExistingDoi /\ ~args.force) \/ PutFailed)
              => exitCode # 0
        /\ raised = "" => exitCode = 0

\* C6: in a run with missing credentials, an unknown license code or an
\* unparseable date, no PUT is issued, the post file is not modified, the
\* run never gets to registration and ends by an abort; with missing
\* credentials no input document is read either.
C6_BadInputAbortsBeforeNetwork ==
    (pc # "idle" /\ (MissingCredentials \/ UnknownLicense \/ UnparseableDate))
        => /\ puts = <<>>
           /\ fs_post = fileAtStart
           /\ pc \notin {"registerMetadata", "registerUrl", "update"}
           /\ (Finished => raised # "")
           /\ (MissingCredentials => trace = <<>>)

\* The script stopped at the unknown license of a post it had read and
\* given an identifier.
C6_Witness ==
    /\ Finished /\ raised = "SystemExit(None)"
    /\ ~MissingCredentials /\ UnknownLicense /\ ~UnparseableDate
    /\ trace = <<"read", "genDoi">>

(***************************************************************************)
(* Properties of parseLicense and assembleMetadata (specification          *)
(* SpecUnit).                                                              *)
(***************************************************************************)
Missing == [missing |-> TRUE]

\* The value at a path of keys in nested dicts.
RECURSIVE GetPath(_, _)
GetPath(v, path) ==
    IF path = <<>> THEN v
    ELSE IF IsDict(v) /\ Has(v, Head(path)) THEN GetPath(Get(v, Head(path)), Tail(path))
    ELSE Missing

\* The paths of the values of a nested dict that are not dicts themselves.
RECURSIVE LeafPaths(_)
LeafPaths(v) ==
    IF ~IsDict(v) THEN {<<>>}
    ELSE UNION {{<<k>> \o path : path \in LeafPaths(Get(v, k))} : k \in DOMAIN v.at}

\* An override mapping sets something at the path or replaces a mapping
\* the path goes through.
Touches(override, path) ==
    \E n \in 1..Len(path) :
        LET v == GetPath(override, SubSeq(path, 1, n))
        IN  v # Missing /\ (~IsDict(v) \/ n = Len(path))

Assembled == call.fn = "assembleMetadata" /\ result # Pending /\ result.exc = ""
Record == Get(result.val, "resource")
ExternalLayer ==
    IF IsNone(call.additional_metadata) THEN EmptyDict ELSE call.additional_metadata
PostLayer ==
    IF Has(call.data_post, "doi-additional-metadata")
    THEN Get(call.data_post, "doi-additional-metadata") ELSE EmptyDict

\* C7: the record assembled for a post without a license key has no
\* rightsList key.
C7_NoLicenseNoRightsSection ==
    (Assembled /\ ~Has(call.data_post, "license")) => ~Has(Record, "rightsList")

SpdxIdentifier(code) ==
    IF code = "mit" THEN "MIT"
    ELSE IF code = "cc0" THEN "CC0-1.0"
    ELSE IF code = "cc-by4" THEN "CC-BY-4.0"
    ELSE "GPL-3.0-only"

\* C8: for a license string that is one of mit, cc0, cc-by4, gpl3 up to the
\* case of its letters, parseLicense returns an entry with scheme SPDX,
\* scheme URI https://spdx.org/licenses/, the SPDX identifier of that code
\* and a URL (https://spdx.org/licenses/MIT.html for mit); for every other
\* license string it raises and returns nothing.
C8_LicenseTable ==
    (call.fn = "parseLicense" /\ result # Pending /\ Has(call.data_post, "license"))
        => LET str == Get(call.data_post, "license").s
           IN  IF IsKnownLicense(str)
               THEN LET code == CHOOSE k \in KnownLicenseCodes : SameIgnoringCase(str, k)
                    IN  /\ result.exc = ""
                        /\ IsDict(result.val)
                        /\ GetPath(result.val, <<"@rightsIdentifierScheme">>) = Str("SPDX")
                        /\ GetPath(result.val, <<"@schemeURI">>) = Str("https://spdx.org/licenses/")
                        /\ GetPath(result.val, <<"@rightsIdentifier">>) = Str(SpdxIdentifier(code))
                        /\ IsStr(GetPath(result.val, <<"@rightsURI">>))
                        /\ code = "mit" =>
                              GetPath(result.val, <<"@rightsURI">>) = Str("https://spdx.org/licenses/MIT.html")
               ELSE result.exc # "" /\ IsNone(result.val)

\* parseLicense resolved a code written in mixed case.
C8_Witness ==
    /\ call.fn = "parseLicense" /\ Has(call.data_post, "license")
    /\ Get(call.data_post, "license").s = "MiT"
    /\ result.exc = ""
    /\ GetPath(result.val, <<"@rightsIdentifier">>) = Str("MIT")

\* C9: every value the post's doi-additional-metadata sets is in the record,
\* and every value the external overrides set is in the record unless the
\* post's layer sets or replaces it: the post's layer wins over the external
\* one and both win over the computed sections.
C9_PostLayerWinsOverExternal ==
    Assembled =>
        /\ \A path \in LeafPaths(PostLayer) :
              GetPath(Record, path) = GetPath(PostLayer, path)
        /\ \A path \in LeafPaths(ExternalLayer) :
              ~Touches(PostLayer, path) => GetPath(Record, path) = GetPath(ExternalLayer, path)

\* External overrides say version 2.0, the post says 3.0, the record 3.0.
C9_Witness ==
    /\ Assembled
    /\ GetPath(ExternalLayer, <<"version">>) = Str("2.0")
    /\ GetPath(PostLayer, <<"version">>) = Str("3.0")
    /\ GetPath(Record, <<"version">>) = Str("3.0")

\* The record as it is before the override merges.
BeforeMerge ==
    Update(fixedSections(call.data_blog, call.data_post, call.data_author, "package").val,
           getMdRelToBlog(call.data_blog))

\* C10: every value of the record before the merges that no override layer
\* sets or replaces is in the returned record unchanged, siblings of an
\* overridden nested leaf included.
C10_DeepMergeKeepsSiblings ==
    Assembled =>
        \A path \in LeafPaths(BeforeMerge) :
            (~Touches(ExternalLayer, path) /\ ~Touches(PostLayer, path))
                => GetPath(Record, path) = GetPath(BeforeMerge, path)

\* The post overrides creators.creator.givenName only, and the record has
\* the new given name next to the author's family name and ORCID.
C10_Witness ==
    /\ Assembled
    /\ ExternalLayer = EmptyDict
    /\ LeafPaths(PostLayer) = {<<"creators", "creator", "givenName">>}
    /\ GetPath(Record, <<"creators", "creator", "givenName">>) = Str("S.")
    /\ GetPath(Record, <<"creators", "creator", "familyName">>) = Str("King")
    /\ GetPath(Record, <<"creators", "creator", "nameIdentifier", "#text">>)
          = Str("https://orcid.org/0000-0000-0000-0000")

\* The sections of the record in the order of the DataCite schema.
CanonicalSections ==
    <<"identifier", "creators", "titles", "publicationYear", "publisher", "resourceType",
      "language", "formats", "version", "rightsList", "subjects", "descriptions",
      "relatedIdentifiers">>

IsSection(k) == \E i \in DOMAIN CanonicalSections : CanonicalSections[i] = k
IsAttribute(k) == CharAt(k, 1) = "@"

IsDictWith(v, keys) == IsDict(v) /\ keys \subseteq DOMAIN v.at

\* C12: whatever the override layers are, in the returned record identifier
\* is a mapping with @identifierType and #text, creators.creator a mapping
\* with creatorName, givenName, familyName, nameIdentifier and affiliation,
\* and titles.title a mapping with #text.
C12_OverridesKeepSectionShapes ==
    Assembled =>
        /\ IsDictWith(GetPath(Record, <<"identifier">>), {"@identifierType", "#text"})
        /\ IsDictWith(GetPath(Record, <<"creators", "creator">>),
                      {"creatorName", "givenName", "familyName", "nameIdentifier", "affiliation"})
        /\ IsDictWith(GetPath(Record, <<"titles", "title">>), {"#text"})

(***************************************************************************)
(* Base64 of RFC 4648, bit by bit: the bits of the bytes, most significant *)
(* first, are read six at a time (zero bits fill the last group), each     *)
(* group is one character of the alphabet, and "=" fills the text to a     *)
(* multiple of four characters.                                            *)
(***************************************************************************)
Pow2(n) == IF n = 0 THEN 1 ELSE IF n = 1 THEN 2 ELSE IF n = 2 THEN 4 ELSE IF n = 3 THEN 8
           ELSE IF n = 4 THEN 16 ELSE IF n = 5 THEN 32 ELSE IF n = 6 THEN 64 ELSE 128

BitOf(bytes, k) ==
    IF k > 8 * Len(bytes) THEN 0
    ELSE (bytes[((k - 1) \div 8) + 1] \div Pow2(7 - ((k - 1) % 8))) % 2

SextetOf(bytes, g) ==
    LET b(j) == BitOf(bytes, 6 * (g - 1) + j)
    IN  32 * b(1) + 16 * b(2) + 8 * b(3) + 4 * b(4) + 2 * b(5) + b(6)

RECURSIVE Rfc4648From(_, _)
Rfc4648From(bytes, g) ==
    IF 6 * (g - 1) >= 8 * Len(bytes)
    THEN IF (g - 1) % 4 = 0 THEN "" ELSE IF (g - 1) % 4 = 2 THEN "==" ELSE "="
    ELSE CharAt(B64Alphabet, SextetOf(bytes, g) + 1) \o Rfc4648From(bytes, g + 1)

Rfc4648(bytes) == Rfc4648From(bytes, 1)

\* C13: for every title, base and prefix genDoi returns, without raising,
\* prefix "/" base "-" followed by the first 6 characters of the base64 text
\* of the title's bytes (all of it when it is shorter, as for the empty
\* title); the result is a function of the three inputs alone.
C13_GenDoiFormat ==
    (call.fn = "genDoi" /\ result # Pending)
        => LET b64 == Rfc4648(encode(call.title))
               first6 == IF Len(b64) <= 6 THEN b64 ELSE SubSeq(b64, 1, 6)
           IN  /\ result.exc = ""
               /\ result.val = Str(call.prefix \o "/" \o call.base \o "-" \o first6)

\* genDoi was called on a title of two bytes, whose base64 text has a
\* padding character among its four.
C13_Witness ==
    /\ call.fn = "genDoi" /\ call.title = "He" /\ call.base = "blog"
    /\ result = Ret(Str("10.1234/blog-SGU="))

\* C14: for a post file named <date prefix><slug>.md, in any directory, and
\* a parseable date, genPermalink returns baseUrl/YYYY/MM/DD/<slug>.html with
\* the year, month and day of the post's date.
C14_PermalinkFromDatedSlug ==
    (call.fn = "genPermalink" /\ result # Pending)
        => \A base \in BaseUrls, dir \in PostDirs, datePrefix \in DatePrefixes, slug \in Slugs :
              ( /\ Get(call.data_blog, "url").s \in {base, base \o "/"}
                /\ call.post_filename = dir \o datePrefix \o slug \o ".md"
                /\ Get(call.data_post, "date").s \in DOMAIN ParsedDates )
              => LET date == ParsedDates[Get(call.data_post, "date").s]
                 IN  result = Ret(Str(base \o "/" \o date.Y \o "/" \o date.m \o "/" \o date.d
                                      \o "/" \o slug \o ".html"))

NotDoi(k) == k # "doi"

Contains(str, sub) ==
    \E i \in 1..(Len(str) - Len(sub) + 1) : SubSeq(str, i, i + Len(sub) - 1) = sub

\* Credentials, a post the existing-identifier check lets through, a license
\* that is known or absent, a parseable date.
ValidInputs ==
    /\ ~MissingCredentials
    /\ ~ExistingDoi \/ args.force
    /\ ~UnknownLicense
    /\ ~UnparseableDate

Reached(step) == \E i \in DOMAIN trace : trace[i] = step

\* C16: a run on valid input whose post has no abstract, or whose blog
\* config has no doi, gets through assembly to registration, and the record
\* it assembles has a descriptions section exactly when the post has an
\* abstract and a relatedIdentifiers section exactly when the blog config
\* has a doi.
C16_OptionalSectionsNeverAbort ==
    /\ (Finished /\ ValidInputs
          /\ (~Has(fileAtStart.metadata, "abstract") \/ ~Has(collectBlogData(fs_config), "doi")))
          => Reached("assemble")
    /\ Reached("assemble")
          => /\ Contains(dj_data_xml, "<descriptions>") <=> Has(fileAtStart.metadata, "abstract")
             /\ Contains(dj_data_xml, "<relatedIdentifiers>") <=> Has(collectBlogData(fs_config), "doi")

\* C17: with dry-run no PUT is issued and the post file is not rewritten;
\* with skip-url and without dry-run a run on valid input issues the
\* metadata PUT, never the URL PUT, and after an ok answer to the metadata
\* PUT it ends with the doi written to the post.
C17_FlagsGateSideEffects ==
    /\ (pc # "idle" /\ args.dry_run) => (puts = <<>> /\ fs_post = fileAtStart)
    /\ (pc # "idle" /\ args.skip_url /\ ~args.dry_run)
          => /\ PutsOf("url") = {}
             /\ (Finished /\ ValidInputs) => PutsOf("metadata") # {}
             /\ (Finished /\ \E i \in PutsOf("metadata") : puts[i].ok)
                   => (raised = "" /\ PostHoldsDoi)

\* The identifier a request is addressed to: its URL after the endpoint.
PathIdentifier(request) ==
    LET endpoint == Get(collectBlogData(fs_config), "provider_url").s
                      \o (IF request.kind = "metadata" THEN "/metadata/" ELSE "/doi/")
    IN  SubSeq(request.url, Len(endpoint) + 1, Len(request.url))

\* C18: all requests of a run are addressed to one identifier; the
\* identifier section of the record in a metadata PUT carries it, the doi=
\* line of a URL PUT carries it, and a post the run has rewritten holds
\* https://doi.org/ followed by it.
C18_OneIdentifierEverywhere ==
    \A i \in DOMAIN puts :
        LET id == PathIdentifier(puts[i])
        IN  /\ \A j \in DOMAIN puts : PathIdentifier(puts[j]) = id
            /\ puts[i].kind = "metadata"
                  => Contains(puts[i].body,
                              "<identifier identifierType=\"DOI\">" \o id \o "</identifier>")
            /\ puts[i].kind = "url" => Contains(puts[i].body, "\ndoi= " \o id \o "\n")
            /\ fs_post # fileAtStart
                  => Get(fs_post.metadata, "doi") = Str("https://doi.org/" \o id)

\* A forced run on a post that has a doi and an identifier override has
\* sent its metadata PUT.
C18_Witness ==
    /\ ExistingDoi /\ args.force
    /\ Has(fileAtStart.metadata, "doi-additional-metadata")
    /\ PutsOf("metadata") # {}
    /\ PathIdentifier(puts[1]) = ExpectedDoi

====
